---- MODULE Spec2Model ----
(***************************************************************************)
(* Model of flair's plateau annealing scheduler, AnnealOnPlateau           *)
(* (src/flair/training_utils.py), and of the schedulers of                 *)
(* src/flair/optim.py: ReduceLRWDOnPlateau, LinearSchedulerWithWarmup and  *)
(* ExpAnnealLR.                                                            *)
(*                                                                         *)
(* Numbers.  Learning rates, floors and eps are integers in one fixed unit *)
(* (fixed point); a factor is a fraction num/den and old_lr * factor is    *)
(* the product rounded down to the unit.  Metrics are small integers, and  *)
(* the floats +inf / -inf are the integers inf / -inf, which lie outside   *)
(* the range of every finite metric of the model.                          *)
(*                                                                         *)
(* Python values that reach the scheduler untyped (the metric arguments,   *)
(* best_aux, min_lr) are tagged records [t, v].                            *)
(***************************************************************************)
EXTENDS Integers, Sequences, FiniteSets, TLC

\* ------------------------------------------------------------------ bounds
MaxEpoch == 4          \* step calls per run
MaxMetric == 2         \* finite metrics are 0..MaxMetric

\* ------------------------------------------------------------ Python values
inf == MaxMetric + 1

None == [t |-> "None", v |-> 0]
Str == [t |-> "str", v |-> 0]          \* a non-empty, non-numeric string
Num(n) == [t |-> "float", v |-> n]
List(l) == [t |-> "list", v |-> l]

IsNum(x) == x.t = "float"

\* float(x): the converted number, or the exception the conversion raises
float(x) ==
    CASE x.t = "float" -> [exc |-> "", v |-> x.v]
      [] x.t = "str" -> [exc |-> "ValueError", v |-> 0]
      [] OTHER -> [exc |-> "TypeError", v |-> 0]

\* mutant: every number is true, 0 included
Truthy_not_none(x) == x.t # "None"

\* truth value of `if x:`
Truthy(x) ==
    CASE x.t = "None" -> FALSE
      [] x.t = "float" -> x.v # 0
      [] OTHER -> TRUE

Max(a, b) == IF a >= b THEN a ELSE b

\* old_lr * self.factor
Mul(a, f) == (a * f.num) \div f.den

\* factor >= 1.0
FactorGeOne(f) == f.num >= f.den

\* ------------------------------------------------------------ the optimizer
\* optimizer.param_groups of the optimizer handed to the constructor
InitialGroups == << [lr |-> 8], [lr |-> 3] >>

\* ------------------------------------------------------------- constructor
\* _init_is_better: the exception it raises, and the fields it sets
_init_is_better_raises(mode) == mode \notin {"min", "max"}

_init_is_better(self, mode) ==
    [self EXCEPT !.mode_worse = IF mode = "min" THEN inf ELSE -inf,
                 !.mode = mode]

_reset(self) ==
    [self EXCEPT !.best = self.mode_worse,
                 !.cooldown_counter = 0,
                 !.num_bad_epochs = 0]

\* mutant: only a list that is too short is refused
min_lr_len_raises_short(min_lr, groups) ==
    min_lr.t = "list" /\ Len(min_lr.v) < Len(groups)

\* lines 237-239: a list or tuple of the wrong length
min_lr_len_raises(min_lr, groups) ==
    min_lr.t = "list" /\ Len(min_lr.v) # Len(groups)

\* min_lr broadcast or taken per group
min_lrs_of(min_lr, groups) ==
    IF min_lr.t = "list" THEN min_lr.v ELSE [i \in 1..Len(groups) |-> min_lr.v]

\* AnnealOnPlateau.__init__: [exc, self]; exc is "" when the object is built
NoObject == [optimizer |-> "none"]

__init__(optimizer, groups, a) ==
    IF FactorGeOne(a.factor) THEN [exc |-> "ValueError", self |-> NoObject]
    ELSE IF optimizer = "none" THEN [exc |-> "TypeError", self |-> NoObject]
    ELSE IF min_lr_len_raises(a.min_lr, groups)
        THEN [exc |-> "ValueError", self |-> NoObject]
    ELSE IF _init_is_better_raises(a.mode) THEN [exc |-> "ValueError", self |-> NoObject]
    ELSE LET s0 == [optimizer |-> optimizer,
                    factor |-> a.factor,
                    min_lrs |-> min_lrs_of(a.min_lr, groups),
                    default_patience |-> a.patience,
                    effective_patience |-> a.patience + a.initial_extra_patience,
                    cooldown |-> a.cooldown,
                    cooldown_counter |-> 0,
                    mode |-> a.mode,
                    aux_mode |-> a.aux_mode,
                    best |-> 0,
                    best_aux |-> None,
                    num_bad_epochs |-> 0,
                    mode_worse |-> 0,
                    eps |-> a.eps,
                    last_epoch |-> 0]
         IN [exc |-> "", self |-> _reset(_init_is_better(s0, a.mode))]

\* ------------------------------------------------------------------- step
in_cooldown(self) == self.cooldown_counter > 0

\* mutant: every group is held at the floor of the first group
_reduce_lr_first_floor(self, groups) ==
    [i \in 1..Len(groups) |->
        LET old_lr == groups[i].lr
            new_lr == Max(Mul(old_lr, self.factor), self.min_lrs[1])
        IN IF old_lr - new_lr > self.eps
              THEN [groups[i] EXCEPT !.lr = new_lr]
              ELSE groups[i]]

\* mutant: the new rate is written without the eps guard
_reduce_lr_unguarded(self, groups) ==
    [i \in 1..Len(groups) |->
        LET old_lr == groups[i].lr
            new_lr == Max(Mul(old_lr, self.factor), self.min_lrs[i])
        IN [groups[i] EXCEPT !.lr = new_lr]]

\* _reduce_lr: the parameter groups after the reduction
_reduce_lr(self, groups) ==
    [i \in 1..Len(groups) |->
        LET old_lr == groups[i].lr
            new_lr == Max(Mul(old_lr, self.factor), self.min_lrs[i])
        IN IF old_lr - new_lr > self.eps
              THEN [groups[i] EXCEPT !.lr = new_lr]
              ELSE groups[i]]

\* mutant: the reduction fires one bad epoch early
reduce_learning_rate_early(num_bad_epochs, effective_patience) ==
    num_bad_epochs >= effective_patience

\* the number of bad epochs reaches the point of reduction
reduce_learning_rate(num_bad_epochs, effective_patience) ==
    num_bad_epochs > effective_patience

last_lr(groups) == [i \in 1..Len(groups) |-> groups[i].lr]

\* self._last_lr = [...]: the attribute is created by the first step
set_last_lr(self, groups) ==
    [k \in DOMAIN self \cup {"_last_lr"} |->
        IF k = "_last_lr" THEN last_lr(groups) ELSE self[k]]

\* mutant: the comparisons of the two modes swapped
better_primary_swapped(mode, current, best) ==
    \/ mode = "min" /\ current > best
    \/ mode = "max" /\ current < best

\* lines 274-280: the primary comparison, strict in both modes
better_primary(mode, current, best) ==
    \/ mode = "min" /\ current < best
    \/ mode = "max" /\ current > best

\* mutant: an equal auxiliary metric counts as better
better_aux_or_equal(aux_mode, current_aux, best_aux) ==
    \/ aux_mode = "min" /\ current_aux <= best_aux
    \/ aux_mode = "max" /\ current_aux >= best_aux

\* lines 284-290: the auxiliary comparison, strict in both modes
better_aux(aux_mode, current_aux, best_aux) ==
    \/ aux_mode = "min" /\ current_aux < best_aux
    \/ aux_mode = "max" /\ current_aux > best_aux

\* mutant: a better epoch leaves best as it was
on_is_better_keep_best(self, current, auxiliary_metric) ==
    [self EXCEPT !.best_aux = IF Truthy(auxiliary_metric) THEN auxiliary_metric ELSE @,
                 !.num_bad_epochs = 0]

\* lines 292-298: bookkeeping of a better / a bad epoch
on_is_better(self, current, auxiliary_metric) ==
    [self EXCEPT !.best = current,
                 !.best_aux = IF Truthy(auxiliary_metric) THEN auxiliary_metric ELSE @,
                 !.num_bad_epochs = 0]

on_not_better(self) == [self EXCEPT !.num_bad_epochs = @ + 1]

\* mutant: the cooldown epoch keeps the bad-epoch count
on_cooldown_counting(self) ==
    IF in_cooldown(self)
    THEN [self EXCEPT !.cooldown_counter = @ - 1]
    ELSE self

\* lines 300-302: an epoch in cooldown
on_cooldown(self) ==
    IF in_cooldown(self)
    THEN [self EXCEPT !.cooldown_counter = @ - 1, !.num_bad_epochs = 0]
    ELSE self

\* mutant: the reduction keeps the effective patience
on_reduce_keep_patience(self) ==
    [self EXCEPT !.cooldown_counter = self.cooldown,
                 !.num_bad_epochs = 0]

\* mutant: the reduction does not start the cooldown
on_reduce_no_cooldown(self) ==
    [self EXCEPT !.num_bad_epochs = 0,
                 !.effective_patience = self.default_patience]

\* mutant: the reduction keeps the count of bad epochs
on_reduce_keep_count(self) ==
    [self EXCEPT !.cooldown_counter = self.cooldown,
                 !.effective_patience = self.default_patience]

\* lines 307-309: the counters after a reduction
on_reduce(self) ==
    [self EXCEPT !.cooldown_counter = self.cooldown,
                 !.num_bad_epochs = 0,
                 !.effective_patience = self.default_patience]

\* AnnealOnPlateau.step: [self, groups, ret, is_better].  ret is "True" or
\* "False", or the name of the exception that ends the call; an exception
\* leaves the assignments made before it in place.
step(self, groups, metric, auxiliary_metric) ==
    LET cur == float(metric) IN
    IF cur.exc # ""
    THEN [self |-> self, groups |-> groups, ret |-> cur.exc, is_better |-> FALSE]
    ELSE
    LET current == cur.v
        epoch == self.last_epoch + 1
        s1 == [self EXCEPT !.last_epoch = epoch]
        tie == current = self.best /\ Truthy(auxiliary_metric)
        current_aux == float(auxiliary_metric)
    IN
    IF tie /\ current_aux.exc # ""
    THEN [self |-> s1, groups |-> groups, ret |-> current_aux.exc, is_better |-> FALSE]
    ELSE IF tie /\ self.aux_mode \in {"min", "max"} /\ ~IsNum(self.best_aux)
    THEN [self |-> s1, groups |-> groups, ret |-> "TypeError", is_better |-> FALSE]
    ELSE
    LET is_better == \/ better_primary(self.mode, current, self.best)
                     \/ tie /\ better_aux(self.aux_mode, current_aux.v, self.best_aux.v)
        s2 == IF is_better THEN on_is_better(s1, current, auxiliary_metric)
                           ELSE on_not_better(s1)
        s3 == on_cooldown(s2)
        reduce == reduce_learning_rate(s3.num_bad_epochs, s3.effective_patience)
        g4 == IF reduce THEN _reduce_lr(s3, groups) ELSE groups
        s4 == IF reduce THEN on_reduce(s3) ELSE s3
    IN [self |-> set_last_lr(s4, g4), groups |-> g4,
        ret |-> IF reduce THEN "True" ELSE "False", is_better |-> is_better]

\* ------------------------------------------------------- state_dict / load
state_dict(self) == [k \in DOMAIN self \ {"optimizer"} |-> self[k]]

\* mutant: the restore ends, like the constructor, with _reset
load_state_dict_reset(self, d) ==
    LET updated == [k \in DOMAIN self \cup DOMAIN d |->
                       IF k \in DOMAIN d THEN d[k] ELSE self[k]]
    IN _reset(_init_is_better(updated, updated.mode))

load_state_dict(self, d) ==
    LET updated == [k \in DOMAIN self \cup DOMAIN d |->
                       IF k \in DOMAIN d THEN d[k] ELSE self[k]]
    IN _init_is_better(updated, updated.mode)

\* ----------------------------------------------------------------- inputs
\* Constructor arguments: every combination that differs from BaseArgs in at
\* most two arguments.
BaseArgs ==
    [mode |-> "min", aux_mode |-> "min", factor |-> [num |-> 1, den |-> 2],
     patience |-> 0, initial_extra_patience |-> 0, cooldown |-> 0,
     min_lr |-> Num(0), eps |-> 1]

AllArgs ==
    [mode : {"min", "max", "avg"},
     aux_mode : {"min", "max"},
     factor : {[num |-> 0, den |-> 2], [num |-> 1, den |-> 2], [num |-> 2, den |-> 2]},
     patience : {-1, 0, 1},
     initial_extra_patience : {-1, 0, 1},
     cooldown : {-1, 0, 2},
     min_lr : {Num(0), List(<<2, 0>>), List(<<1>>)},
     eps : {0, 1}]

CtorArgs ==
    {a \in AllArgs : Cardinality({k \in DOMAIN BaseArgs : a[k] # BaseArgs[k]}) <= 2}

\* the constructor arguments of the runs with a restore: at most one differs
RestoreArgs ==
    {a \in AllArgs : Cardinality({k \in DOMAIN BaseArgs : a[k] # BaseArgs[k]}) <= 1}

\* the defaults of the constructor's signature (lines 218-226)
DefaultArgs ==
    [mode |-> "min", aux_mode |-> "min", factor |-> [num |-> 1, den |-> 10],
     patience |-> 10, initial_extra_patience |-> 0, cooldown |-> 0,
     min_lr |-> Num(0), eps |-> 0]

Optimizers == {"optimizer", "none"}    \* "none": not an Optimizer instance

Metrics == {Num(n) : n \in 0..MaxMetric} \cup {Num(inf)}
AuxMetrics == {Num(n) : n \in 0..MaxMetric} \cup {None}

\* ------------------------------------ ReduceLRWDOnPlateau (src/flair/optim.py)
\* The class extends torch's ReduceLROnPlateau, of which AnnealOnPlateau is a
\* variant: the constructor fields, in_cooldown and _reduce_lr are those above,
\* and is_better (relative threshold 1e-4) is the strict comparison on the
\* integer metrics of the model.  Metrics are passed as plain numbers.

\* param_groups of the optimizers with weight decay
WdGroups ==
    { << [lr |-> 8, weight_decay |-> 4], [lr |-> 3, weight_decay |-> 0] >>,
      << [lr |-> 4, weight_decay |-> 8], [lr |-> 2, weight_decay |-> 3] >> }

WdArgs ==
    [mode : {"min", "max"},
     factor : {[num |-> 1, den |-> 2]},
     patience : {0, 1},
     cooldown : {0, 1},
     min_lr : {Num(0), Num(2), List(<<3, 0>>)},
     eps : {0, 1}]

WdMetrics == 0..MaxMetric

\* the fields of ReduceLROnPlateau after construction
wd_init(groups, a) ==
    [factor |-> a.factor,
     min_lrs |-> min_lrs_of(a.min_lr, groups),
     patience |-> a.patience,
     cooldown |-> a.cooldown,
     cooldown_counter |-> 0,
     mode |-> a.mode,
     best |-> IF a.mode = "min" THEN inf ELSE -inf,
     num_bad_epochs |-> 0,
     eps |-> a.eps,
     last_epoch |-> 0]

\* self.is_better(current, self.best)
wd_is_better(mode, current, best) ==
    \/ mode = "min" /\ current < best
    \/ mode = "max" /\ current > best

\* lines 271-279: _reduce_weight_decay
_reduce_weight_decay(self, groups) ==
    [i \in 1..Len(groups) |->
        IF groups[i].weight_decay # 0
        THEN LET old_weight_decay == groups[i].weight_decay
                 new_weight_decay ==
                     Max(Mul(old_weight_decay, self.factor), self.min_lrs[i])
             IN IF old_weight_decay - new_weight_decay > self.eps
                   THEN [groups[i] EXCEPT !.weight_decay = new_weight_decay]
                   ELSE groups[i]
        ELSE groups[i]]

\* mutant: the trigger reduces the learning rate only
wd_on_reduce_lr_only(self, groups) == _reduce_lr(self, groups)

\* lines 266-267: the two reductions of one trigger
wd_on_reduce(self, groups) == _reduce_weight_decay(self, _reduce_lr(self, groups))

\* ReduceLRWDOnPlateau.step(metrics): [self, groups, bad]; bad is
\* num_bad_epochs as line 265 reads it
wd_step(self, groups, metrics) ==
    LET current == metrics
        epoch == self.last_epoch + 1
        s1 == [self EXCEPT !.last_epoch = epoch]
        s2 == IF wd_is_better(s1.mode, current, s1.best)
              THEN [s1 EXCEPT !.best = current, !.num_bad_epochs = 0]
              ELSE [s1 EXCEPT !.num_bad_epochs = @ + 1]
        s3 == IF in_cooldown(s2)
              THEN [s2 EXCEPT !.cooldown_counter = @ - 1, !.num_bad_epochs = 0]
              ELSE s2
        reduce == s3.num_bad_epochs > s3.patience
    IN [self |-> IF reduce
                 THEN [s3 EXCEPT !.cooldown_counter = s3.cooldown,
                                 !.num_bad_epochs = 0]
                 ELSE s3,
        groups |-> IF reduce THEN wd_on_reduce(s3, groups) ELSE groups,
        bad |-> s3.num_bad_epochs]

NoWd == [ctor |-> "none"]

\* ------------------------------ LinearSchedulerWithWarmup (src/flair/optim.py)
MaxSteps == 5          \* num_train_steps, num_warmup_steps, iterations are 0..MaxSteps

\* a float that is a quotient of integers, den > 0
Frac(n, d) == [num |-> n, den |-> d]
FracEq(a, b) == a.num * b.den = b.num * a.den
FracLess(a, b) == a.num * b.den < b.num * a.den

\* mutant: the decay is spread over all steps, the warmup not taken off
linear_lr_lambda_full_span(num_train_steps, num_warmup_steps, current_step) ==
    LET lambda_during_warmup == Frac(current_step, Max(1, num_warmup_steps))
        lambda_after_warmup ==
            Frac(Max(0, num_train_steps - current_step), Max(1, num_train_steps))
    IN IF current_step < num_warmup_steps
          THEN lambda_during_warmup
          ELSE lambda_after_warmup

\* mutant: the decay is not held at 0.0
linear_lr_lambda_unclamped(num_train_steps, num_warmup_steps, current_step) ==
    LET lambda_during_warmup == Frac(current_step, Max(1, num_warmup_steps))
        lambda_after_warmup ==
            Frac(num_train_steps - current_step,
                 Max(1, num_train_steps - num_warmup_steps))
    IN IF current_step < num_warmup_steps
          THEN lambda_during_warmup
          ELSE lambda_after_warmup

\* lines 179-187; max(0.0, n / d) with d > 0 is max(0, n) / d
linear_lr_lambda(num_train_steps, num_warmup_steps, current_step) ==
    LET lambda_during_warmup == Frac(current_step, Max(1, num_warmup_steps))
        lambda_after_warmup ==
            Frac(Max(0, num_train_steps - current_step),
                 Max(1, num_train_steps - num_warmup_steps))
    IN IF current_step < num_warmup_steps
          THEN lambda_during_warmup
          ELSE lambda_after_warmup

NoLinear == [ctor |-> "none"]

\* ------------------------------------------- ExpAnnealLR (src/flair/optim.py)
\* Rates of this scheduler are powers of two and are kept as their binary
\* logarithm, a quotient of integers: base_lr * (end_lr / base_lr) ** pct has
\* the logarithm base + (end - base) * pct.

\* log2 of the initial rates of the groups, and of the end_lr arguments
ExpBaseLrs == <<3, 1>>
ExpEndLrs == {-2, 0, 1, 3}

\* base_lr * (self.end_lr / base_lr) ** pct
Pow(base_lr, end_lr, pct) ==
    Frac(base_lr * pct.den + (end_lr - base_lr) * pct.num, pct.den)

\* lines 158-161; the division by iterations = 0 raises
get_lr_raises(self) == self.iterations = 0

\* mutant: the exponent is taken at last_epoch itself
get_lr_at_last_epoch(self) ==
    LET iteration == self.last_epoch
        pct == Frac(iteration, self.iterations)
    IN [i \in 1..Len(self.base_lrs) |-> Pow(self.base_lrs[i], self.end_lr, pct)]

get_lr(self) ==
    LET iteration == self.last_epoch + 1
        pct == Frac(iteration, self.iterations)
    IN [i \in 1..Len(self.base_lrs) |-> Pow(self.base_lrs[i], self.end_lr, pct)]

NoExp == [ctor |-> "none"]

\* ------------------------------------------------------------------ state
VARIABLES
    sched,          \* the scheduler's __dict__, NoObject before construction
    param_groups,   \* optimizer.param_groups
    ctor,           \* outcome of the constructor call: "none", "ok" or an exception
    cargs,          \* the arguments of the constructor call
    ret,            \* outcome of the last step call: "none", "True", "False" or an exception
    args,           \* the arguments of the last step call
    is_better,      \* the local is_better of the last step call
    prev,           \* history: scheduler and groups as the last step call found them
    run,            \* history: length of the current run of bad epochs, and the
                    \*   effective patience at its start (cooldown = 0 only)
    since,          \* history: step calls that returned since the last reduction, -1 if
                    \*   none; counted up to cooldown + base patience + 1
    reduced_ever,   \* history: some step call has returned True
    mono,           \* history: the metrics so far are finite and strictly improving
    clone,          \* a second scheduler, restored from the first one's state_dict
    clone_groups,   \* the parameter groups the second scheduler is bound to
    clone_ret,      \* outcome of the second scheduler's last step call
    wd,             \* ReduceLRWDOnPlateau: scheduler, groups and history
    linear,         \* LinearSchedulerWithWarmup: arguments, last_epoch, multiplier,
                    \*   and the multiplier of the step before
    expanneal       \* ExpAnnealLR: scheduler and the rates of the groups

vars == <<sched, param_groups, ctor, cargs, ret, args, is_better,
          prev, run, since, reduced_ever, mono, clone, clone_groups, clone_ret,
          wd, linear, expanneal>>

\* the variables of AnnealOnPlateau, and those of the schedulers of optim.py
anneal_vars == <<sched, param_groups, ctor, cargs, ret, args, is_better,
                 prev, run, since, reduced_ever, mono, clone, clone_groups, clone_ret>>
optim_vars == <<wd, linear, expanneal>>

NoArgs == [metric |-> None, aux |-> None]
NoPrev == [self |-> NoObject, groups |-> InitialGroups, since |-> -1]
NoRun == [n |-> 0, pat |-> 0]

Min(a, b) == IF a <= b THEN a ELSE b

Finite(m) == IsNum(m) /\ m.v # inf /\ m.v # -inf

\* a is strictly on the improving side of b under mode
StrictlyBetter(mode, a, b) ==
    \/ mode = "min" /\ a < b
    \/ mode = "max" /\ a > b

Init ==
    /\ sched = NoObject
    /\ param_groups = InitialGroups
    /\ ctor = "none"
    /\ cargs = DefaultArgs
    /\ ret = "none"
    /\ args = NoArgs
    /\ is_better = FALSE
    /\ prev = NoPrev
    /\ run = NoRun
    /\ since = -1
    /\ reduced_ever = FALSE
    /\ mono = TRUE
    /\ clone = NoObject
    /\ clone_groups = InitialGroups
    /\ clone_ret = "none"
    /\ wd = NoWd
    /\ linear = NoLinear
    /\ expanneal = NoExp

\* scheduler = AnnealOnPlateau(optimizer, ...)
Construct(optimizer, a) ==
    /\ ctor = "none"
    /\ LET r == __init__(optimizer, param_groups, a) IN
       /\ sched' = r.self
       /\ ctor' = IF r.exc = "" THEN "ok" ELSE r.exc
    /\ cargs' = a
    /\ UNCHANGED <<param_groups, ret, args, is_better, prev, run, since,
                   reduced_ever, mono, clone, clone_groups, clone_ret>>
    /\ UNCHANGED optim_vars

\* the history variables after a step call with outcome r
History(metric, aux, r) ==
    LET returned == r.ret \in {"True", "False"}
        start == sched.num_bad_epochs = 0 /\ sched.cooldown_counter = 0
        base == IF start THEN [n |-> 0, pat |-> sched.effective_patience] ELSE run
    IN
    /\ args' = [metric |-> metric, aux |-> aux]
    /\ prev' = [self |-> sched, groups |-> param_groups, since |-> since]
    /\ run' = IF ~returned \/ sched.cooldown # 0 THEN run
              ELSE IF r.is_better THEN NoRun
              ELSE [n |-> base.n + 1, pat |-> base.pat]
    /\ since' = IF ~returned THEN since
                ELSE IF r.ret = "True" THEN 0
                ELSE IF since = -1 THEN -1
                ELSE Min(since + 1, Max(sched.cooldown, 0)
                                      + Max(sched.default_patience, 0) + 1)
    /\ reduced_ever' = (reduced_ever \/ r.ret = "True")
    /\ mono' = /\ mono
               /\ Finite(metric)
               /\ ret # "none" => /\ IsNum(args.metric)
                                  /\ StrictlyBetter(sched.mode, metric.v, args.metric.v)

\* scheduler.step(metric, auxiliary_metric), no second scheduler around
Step(metric, aux) ==
    /\ ctor = "ok"
    /\ clone = NoObject
    /\ sched.last_epoch < MaxEpoch
    /\ LET r == step(sched, param_groups, metric, aux) IN
       /\ sched' = r.self
       /\ param_groups' = r.groups
       /\ ret' = r.ret
       /\ is_better' = r.is_better
       /\ History(metric, aux, r)
    /\ UNCHANGED <<ctor, cargs, clone, clone_groups, clone_ret>>
    /\ UNCHANGED optim_vars

\* other = AnnealOnPlateau(optimizer2); other.load_state_dict(scheduler.state_dict())
\* with optimizer2's groups at the learning rates of the first optimizer
Restore ==
    /\ ctor = "ok"
    /\ clone = NoObject
    /\ LET fresh == __init__("optimizer2", param_groups, DefaultArgs).self IN
       clone' = load_state_dict(fresh, state_dict(sched))
    /\ clone_groups' = param_groups
    /\ clone_ret' = "none"
    /\ UNCHANGED <<sched, param_groups, ctor, cargs, ret, args, is_better,
                   prev, run, since, reduced_ever, mono>>
    /\ UNCHANGED optim_vars

\* the same step call on both schedulers
StepBoth(metric, aux) ==
    /\ clone # NoObject
    /\ sched.last_epoch < MaxEpoch
    /\ LET r == step(sched, param_groups, metric, aux)
           c == step(clone, clone_groups, metric, aux) IN
       /\ sched' = r.self
       /\ param_groups' = r.groups
       /\ ret' = r.ret
       /\ is_better' = r.is_better
       /\ History(metric, aux, r)
       /\ clone' = c.self
       /\ clone_groups' = c.groups
       /\ clone_ret' = c.ret
    /\ UNCHANGED <<ctor, cargs>>
    /\ UNCHANGED optim_vars

Next ==
    \/ \E o \in Optimizers, a \in CtorArgs : Construct(o, a)
    \/ \E m \in Metrics, x \in AuxMetrics : Step(m, x)

Spec == Init /\ [][Next]_vars

\* construction, steps, and a restore followed by steps of both schedulers
NextRestore ==
    \/ \E o \in Optimizers, a \in RestoreArgs : Construct(o, a)
    \/ \E m \in Metrics, x \in AuxMetrics : Step(m, x)
    \/ Restore
    \/ \E m \in Metrics, x \in AuxMetrics : StepBoth(m, x)

SpecRestore == Init /\ [][NextRestore]_vars

\* the runs about the floors: the constructor arguments differ in min_lr,
\* factor and eps; floors below, between and above the initial rates
FloorArgs ==
    [mode : {"min"}, aux_mode : {"min"},
    factor : {[num |-> 0, den |-> 2], [num |-> 1, den |-> 2]},
    patience : {0}, initial_extra_patience : {0}, cooldown : {0},
    min_lr : {Num(0), Num(5), List(<<2, 5>>), List(<<9, 0>>),
              List(<<1>>), List(<<1, 2, 3>>)},
     eps : {-3, 0, 1}]

NextFloor ==
    \/ \E o \in Optimizers, a \in FloorArgs : Construct(o, a)
    \/ \E m \in Metrics, x \in AuxMetrics : Step(m, x)

SpecFloor == Init /\ [][NextFloor]_vars

\* the runs with metrics that are not numbers: float() refuses the string
StrMetrics == Metrics \cup {Str}
StrAuxMetrics == AuxMetrics \cup {Str}

NextStr ==
    \/ \E o \in Optimizers, a \in RestoreArgs : Construct(o, a)
    \/ \E m \in StrMetrics, x \in StrAuxMetrics : Step(m, x)

SpecStr == Init /\ [][NextStr]_vars

\* ------------------------------------------------- the schedulers of optim.py
\* scheduler = ReduceLRWDOnPlateau(optimizer, ...)
ConstructWD(groups, a) ==
    /\ wd.ctor = "none"
    /\ wd' = [ctor |-> "ok", self |-> wd_init(groups, a), groups |-> groups,
              stepped |-> FALSE, bad |-> 0,
              prev |-> [self |-> wd_init(groups, a), groups |-> groups]]
    /\ UNCHANGED <<anneal_vars, linear, expanneal>>

\* scheduler.step(metrics)
StepWD(metrics) ==
    /\ wd.ctor = "ok"
    /\ wd.self.last_epoch < MaxEpoch
    /\ LET r == wd_step(wd.self, wd.groups, metrics) IN
       wd' = [ctor |-> "ok", self |-> r.self, groups |-> r.groups,
              stepped |-> TRUE, bad |-> r.bad,
              prev |-> [self |-> wd.self, groups |-> wd.groups]]
    /\ UNCHANGED <<anneal_vars, linear, expanneal>>

NextWD ==
    \/ \E g \in WdGroups, a \in WdArgs : ConstructWD(g, a)
    \/ \E m \in WdMetrics : StepWD(m)

SpecWD == Init /\ [][NextWD]_vars

\* scheduler = LinearSchedulerWithWarmup(optimizer, num_train_steps,
\* num_warmup_steps): the constructor of LambdaLR takes the initial step, which
\* sets last_epoch to 0 and every rate to base_lr * lr_lambda(0)
ConstructLinear(num_train_steps, num_warmup_steps) ==
    /\ linear.ctor = "none"
    /\ linear' = [ctor |-> "ok",
                  num_train_steps |-> num_train_steps,
                  num_warmup_steps |-> num_warmup_steps,
                  last_epoch |-> 0,
                  m |-> linear_lr_lambda(num_train_steps, num_warmup_steps, 0),
                  prev_m |-> linear_lr_lambda(num_train_steps, num_warmup_steps, 0)]
    /\ UNCHANGED <<anneal_vars, wd, expanneal>>

\* scheduler.step(): last_epoch += 1, every rate base_lr * lr_lambda(last_epoch)
StepLinear ==
    /\ linear.ctor = "ok"
    /\ linear.last_epoch <= MaxSteps
    /\ linear' = [linear EXCEPT
                    !.last_epoch = @ + 1,
                    !.m = linear_lr_lambda(linear.num_train_steps,
                                           linear.num_warmup_steps,
                                           linear.last_epoch + 1),
                    !.prev_m = linear.m]
    /\ UNCHANGED <<anneal_vars, wd, expanneal>>

NextLinear ==
    \/ \E t \in 0..MaxSteps, w \in 0..MaxSteps : ConstructLinear(t, w)
    \/ StepLinear

SpecLinear == Init /\ [][NextLinear]_vars

\* scheduler = ExpAnnealLR(optimizer, end_lr, iterations): the constructor of
\* _LRScheduler records the base rates and takes the initial step, which sets
\* last_epoch to 0 and the rates to get_lr()
ConstructExp(end_lr, iterations) ==
    /\ expanneal.ctor = "none"
    /\ LET self == [end_lr |-> end_lr, iterations |-> iterations,
                    base_lrs |-> ExpBaseLrs, last_epoch |-> 0]
       IN expanneal' =
            IF get_lr_raises(self)
            THEN [ctor |-> "ZeroDivisionError"]
            ELSE [ctor |-> "ok", self |-> self, lrs |-> get_lr(self),
                  prev_lrs |-> [i \in 1..Len(ExpBaseLrs) |-> Frac(ExpBaseLrs[i], 1)]]
    /\ UNCHANGED <<anneal_vars, wd, linear>>

\* scheduler.step(): last_epoch += 1, the rates become get_lr()
StepExp ==
    /\ expanneal.ctor = "ok"
    /\ expanneal.self.last_epoch <= MaxSteps
    /\ LET self == [expanneal.self EXCEPT !.last_epoch = @ + 1]
       IN expanneal' = [expanneal EXCEPT !.self = self, !.lrs = get_lr(self),
                                         !.prev_lrs = expanneal.lrs]
    /\ UNCHANGED <<anneal_vars, wd, linear>>

NextExp ==
    \/ \E e \in ExpEndLrs, n \in 0..MaxSteps : ConstructExp(e, n)
    \/ StepExp

SpecExp == Init /\ [][NextExp]_vars

\* ------------------------------------------------------------------ claims
Built == ctor = "ok"
FactorInRange == 0 < cargs.factor.num /\ cargs.factor.num < cargs.factor.den
CountsInRange == cargs.patience >= 0 /\ cargs.cooldown >= 0
Returned == ret \in {"True", "False"}

\* the rate the claim C1 states for a group: max(old_lr * factor, min_lr),
\* or the old rate when the difference is at most eps
ClaimedLr(old_lr, factor, min_lr, eps) ==
    LET new_lr == Max(Mul(old_lr, factor), min_lr)
    IN IF old_lr - new_lr <= eps THEN old_lr ELSE new_lr

\* C1: with cooldown 0, in a run of non-improving step calls that starts with
\* bad_epoch_count = 0 at effective patience p >= 0, the calls 1..p return False
\* and call p+1 returns True and leaves every rate at max(old_lr * factor, min_lr),
\* or unchanged when old_lr - new_lr <= eps.
C1_PatienceRun ==
    (Built /\ sched.cooldown = 0 /\ Returned /\ run.n >= 1 /\ run.pat >= 0) =>
        /\ run.n <= run.pat + 1
        /\ (ret = "True") <=> (run.n = run.pat + 1)
        /\ ret = "True" =>
              \A i \in 1..Len(param_groups) :
                  param_groups[i].lr =
                      ClaimedLr(prev.groups[i].lr, sched.factor, sched.min_lrs[i], sched.eps)
        /\ ret = "False" => param_groups = prev.groups

C1_Witness ==
    /\ Built /\ sched.cooldown = 0 /\ ret = "True"
    /\ run.pat >= 1 /\ run.n = run.pat + 1
    /\ param_groups[1].lr < prev.groups[1].lr
    /\ param_groups[2].lr = prev.groups[2].lr

\* C2: with cooldown c > 0 and base patience >= 0, each of the c step calls that
\* return after a reduction returns False, leaves bad_epoch_count at 0 and lowers
\* cooldown_remaining by one, whatever the metric; afterwards a non-improving
\* call counts again.
C2_CooldownSuppression ==
    (Built /\ sched.cooldown > 0 /\ sched.default_patience >= 0) =>
        /\ since \in 0..sched.cooldown =>
              /\ sched.cooldown_counter = sched.cooldown - since
              /\ sched.num_bad_epochs = 0
        /\ (Returned /\ prev.since \in 0..(sched.cooldown - 1)) =>
              /\ ret = "False"
              /\ since = prev.since + 1
              /\ sched.cooldown_counter = prev.self.cooldown_counter - 1
        /\ (Returned /\ prev.since = sched.cooldown /\ ~is_better) =>
              \/ ret = "True"
              \/ sched.num_bad_epochs = 1

C2_Witness ==
    /\ Built /\ sched.cooldown = 2 /\ sched.default_patience >= 0
    /\ since = 2 /\ ret = "False" /\ ~is_better
    /\ sched.cooldown_counter = 0 /\ sched.num_bad_epochs = 0

\* C3: a step call whose primary metric equals best and whose auxiliary metric
\* is a non-zero number counts as an improvement when that number is strictly
\* better than best_aux under aux_mode (bad_epoch_count 0, best unchanged,
\* best_aux the supplied value), and as a bad epoch otherwise.
TieCall ==
    /\ Built /\ ret # "none"
    /\ IsNum(args.metric) /\ args.metric.v = prev.self.best
    /\ IsNum(args.aux) /\ args.aux.v # 0
    /\ IsNum(prev.self.best_aux)

C3_TieBreak ==
    TieCall =>
        IF StrictlyBetter(sched.aux_mode, args.aux.v, prev.self.best_aux.v)
        THEN /\ Returned /\ is_better
             /\ sched.num_bad_epochs = 0
             /\ sched.best = prev.self.best
             /\ sched.best_aux = args.aux
        ELSE /\ Returned /\ ~is_better
             /\ sched.best = prev.self.best
             /\ sched.best_aux = prev.self.best_aux
             /\ \/ ret = "True"
                \/ in_cooldown(prev.self) /\ sched.num_bad_epochs = 0
                \/ sched.num_bad_epochs = prev.self.num_bad_epochs + 1

C3_Witness ==
    /\ TieCall
    /\ StrictlyBetter(sched.aux_mode, args.aux.v, prev.self.best_aux.v)
    /\ prev.self.num_bad_epochs > 0
    /\ sched.num_bad_epochs = 0

\* C4: a fresh scheduler with base patience >= 0 and initial extra patience >= 0
\* that is fed finite, strictly improving primary metrics returns False from
\* every step call, with bad_epoch_count 0 and best the metric just supplied.
C4_Improving ==
    (/\ Built /\ cargs.patience >= 0 /\ cargs.initial_extra_patience >= 0
     /\ mono /\ ret # "none") =>
        /\ ret = "False"
        /\ sched.num_bad_epochs = 0
        /\ sched.best = args.metric.v

C4_Witness ==
    /\ Built /\ cargs.patience >= 0 /\ cargs.initial_extra_patience >= 0
    /\ mono /\ sched.last_epoch >= 3 /\ sched.mode = "max"

\* C5: a step call returns True only if it did not begin in cooldown
\* (cooldown_remaining is 0) and the bad-epoch count it computed exceeds the
\* effective patience.  (Stated for factors within (0, 1).)
C5_ReductionGuard ==
    (Built /\ FactorInRange /\ ret = "True") =>
        /\ prev.self.cooldown_counter = 0
        /\ (IF is_better THEN 0 ELSE prev.self.num_bad_epochs + 1)
               > prev.self.effective_patience

\* C6: a step call with a numeric primary metric and an auxiliary metric that is
\* absent or numeric never raises: it returns True or False.  (Stated for the
\* schedulers whose factor, patience and cooldown are within their ranges.)
C6_NoRaise ==
    (/\ Built /\ FactorInRange /\ CountsInRange /\ ret # "none"
     /\ IsNum(args.metric)
     /\ args.aux = None \/ IsNum(args.aux)) => Returned

\* C7: a scheduler restored with load_state_dict(state_dict()) and bound to
\* groups with the same rates gives the same step results as the original and
\* stays in the same state (every attribute but the optimizer, and the rates).
C7_RoundTrip ==
    clone # NoObject =>
        /\ state_dict(clone) = state_dict(sched)
        /\ clone_groups = param_groups
        /\ clone_ret # "none" => clone_ret = ret

C7_Witness ==
    /\ clone # NoObject
    /\ clone_ret = "True"
    /\ sched.best # sched.mode_worse
    /\ sched.last_epoch = MaxEpoch

\* C8: effective_patience is base_patience + initial_extra_patience until a step
\* call has returned True, and base_patience from then on.
C8_EffectivePatience ==
    Built =>
        sched.effective_patience =
            IF reduced_ever THEN cargs.patience
            ELSE cargs.patience + cargs.initial_extra_patience

C8_Witness ==
    /\ Built /\ reduced_ever
    /\ cargs.initial_extra_patience # 0
    /\ ret = "False"
    /\ sched.effective_patience = cargs.patience

\* C9: no scheduler exists whose factor is not strictly between 0 and 1.
\* (Stated for non-negative patience and cooldown.)
C9_FactorRange ==
    (Built /\ CountsInRange) => FactorInRange

\* C10: no scheduler exists with a negative base patience or a negative cooldown.
\* (Stated for factors within (0, 1).)
C10_NonNegative ==
    (Built /\ FactorInRange) => CountsInRange

\* C11: of every scheduler the constructor accepts, cooldown_remaining and
\* bad_epoch_count are never negative.  (Stated for factors within (0, 1).)
C11_CountersNonNegative ==
    (Built /\ FactorInRange) =>
        /\ sched.cooldown_counter >= 0
        /\ sched.num_bad_epochs >= 0

\* C18: after a step call that registered an improvement and was given a
\* numeric auxiliary metric (0 included), best_aux is that auxiliary metric.
\* (Stated for the schedulers whose factor, patience and cooldown are within
\* their ranges.)
C18_BestAuxOfBest ==
    (/\ Built /\ FactorInRange /\ CountsInRange
     /\ Returned /\ is_better /\ IsNum(args.aux)) =>
        sched.best_aux = args.aux

\* the better of a and b under mode
Extreme(mode, a, b) == IF mode = "min" THEN Min(a, b) ELSE Max(a, b)

\* C19: best starts at +infinity (MIN) or -infinity (MAX) and after every step
\* call is the better of its value before the call and the primary metric of
\* the call: it never moves against the mode, and is the minimum (maximum) of
\* the primary metrics supplied so far, in cooldown and on tie-breaks too.
C19_BestIsExtreme ==
    Built =>
        /\ ret = "none" =>
              sched.best = IF sched.mode = "min" THEN inf ELSE -inf
        /\ ret # "none" =>
              /\ sched.best = Extreme(sched.mode, prev.self.best, args.metric.v)
              /\ ~StrictlyBetter(sched.mode, prev.self.best, sched.best)

C19_Witness ==
    /\ Built /\ Returned /\ is_better
    /\ args.metric.v = prev.self.best
    /\ in_cooldown(prev.self)
    /\ sched.best = 1
    /\ sched.last_epoch >= 3

\* C20: after a step call that returned True, cooldown_remaining is cooldown,
\* bad_epoch_count is 0 and effective_patience is base_patience, also when the
\* call wrote no group's rate.
C20_AfterReduction ==
    (Built /\ ret = "True") =>
        /\ sched.cooldown_counter = sched.cooldown
        /\ sched.num_bad_epochs = 0
        /\ sched.effective_patience = sched.default_patience

C20_Witness ==
    /\ Built /\ ret = "True"
    /\ param_groups = prev.groups
    /\ sched.cooldown = 2 /\ sched.cooldown_counter = 2
    /\ prev.self.cooldown_counter = 0

\* C12 as stated: a step call that returns True sets the rate of each group i
\* to max(old_lr_i * factor, min_lr_i) if old_lr_i exceeds that value by more
\* than eps and leaves it otherwise; a group at or above its floor does not end
\* below it, and a group at or below its floor keeps its rate.  (Stated for
\* factors within (0, 1).)
GroupFloors ==
    \A i \in 1..Len(param_groups) :
        LET old_lr == prev.groups[i].lr
            floor == sched.min_lrs[i]
        IN /\ param_groups[i].lr = ClaimedLr(old_lr, sched.factor, floor, sched.eps)
           /\ old_lr >= floor => param_groups[i].lr >= floor
           /\ old_lr <= floor => param_groups[i].lr = old_lr

C12_GroupFloors ==
    (Built /\ FactorInRange /\ ret = "True") => GroupFloors

\* C12 amended: the same, for the schedulers whose eps is not negative.
C12_GroupFloorsEps ==
    (Built /\ sched.eps >= 0 /\ ret = "True") => GroupFloors

C12_Witness ==
    /\ Built /\ sched.eps >= 0 /\ ret = "True"
    /\ prev.groups[1].lr > sched.min_lrs[1]
    /\ param_groups[1].lr = sched.min_lrs[1]
    /\ prev.groups[2].lr < sched.min_lrs[2]
    /\ param_groups[2].lr = prev.groups[2].lr

\* C17: the constructor refuses a min_lr list whose length is not the number
\* of parameter groups; it gives every group the floor of a scalar min_lr, and
\* group i the i-th floor of a list of matching length.
C17_MinLrShape ==
    ctor # "none" =>
        IF cargs.min_lr.t = "list"
        THEN IF Len(cargs.min_lr.v) # Len(param_groups)
             THEN ctor \in {"ValueError", "TypeError"}
             ELSE Built =>
                    \A i \in 1..Len(param_groups) :
                        sched.min_lrs[i] = cargs.min_lr.v[i]
        ELSE Built =>
               /\ Len(sched.min_lrs) = Len(param_groups)
               /\ \A i \in 1..Len(param_groups) :
                      sched.min_lrs[i] = cargs.min_lr.v

C17_Witness ==
    /\ ctor = "ValueError"
    /\ cargs.factor = [num |-> 1, den |-> 2]
    /\ cargs.min_lr = List(<<1, 2, 3>>)

\* C13: a step of ReduceLRWDOnPlateau whose bad-epoch count exceeds patience
\* applies the learning-rate reduction and the weight-decay reduction to every
\* group; every other step leaves learning rate and weight decay of every group
\* as they were.
C13_SameTrigger ==
    (wd.ctor = "ok" /\ wd.stepped) =>
        IF wd.bad > wd.self.patience
        THEN \A i \in 1..Len(wd.groups) :
                /\ wd.groups[i].lr =
                      ClaimedLr(wd.prev.groups[i].lr, wd.self.factor,
                                wd.self.min_lrs[i], wd.self.eps)
                /\ wd.groups[i].weight_decay =
                      ClaimedLr(wd.prev.groups[i].weight_decay, wd.self.factor,
                                wd.self.min_lrs[i], wd.self.eps)
        ELSE wd.groups = wd.prev.groups

C13_Witness ==
    /\ wd.ctor = "ok" /\ wd.stepped
    /\ wd.bad > wd.self.patience
    /\ wd.self.patience = 1 /\ wd.self.cooldown = 1
    /\ \A i \in 1..Len(wd.groups) :
          /\ wd.groups[i].lr < wd.prev.groups[i].lr
          /\ wd.groups[i].weight_decay < wd.prev.groups[i].weight_decay

\* C14: the weight decay a reduction writes does not depend on the
\* learning-rate floor: with any other min_lr the same step gives every group
\* the same weight decay.
C14_OwnFloor ==
    (wd.ctor = "ok" /\ wd.stepped /\ wd.bad > wd.self.patience) =>
        \A a \in WdArgs :
            LET other == [wd.prev.self EXCEPT
                            !.min_lrs = min_lrs_of(a.min_lr, wd.prev.groups)]
            IN \A i \in 1..Len(wd.groups) :
                  wd_on_reduce(other, wd.prev.groups)[i].weight_decay
                      = wd.groups[i].weight_decay

\* the multiplier as C15 states it
ClaimedMultiplier(total_steps, warmup_steps, s) ==
    IF s < warmup_steps
    THEN Frac(s, Max(1, warmup_steps))
    ELSE LET q == Frac(total_steps - s, Max(1, total_steps - warmup_steps))
         IN IF FracLess(q, Frac(0, 1)) THEN Frac(0, 1) ELSE q

\* C15: for 0 < warmup_steps < total_steps the multiplier at step s is
\* s / max(1, warmup_steps) below warmup_steps and
\* max(0, (total_steps - s) / max(1, total_steps - warmup_steps)) from there on;
\* it is 0 at step 0, 1 at warmup_steps and 0 at total_steps.
C15_Multiplier ==
    (/\ linear.ctor = "ok"
     /\ 0 < linear.num_warmup_steps
     /\ linear.num_warmup_steps < linear.num_train_steps) =>
        /\ FracEq(linear.m, ClaimedMultiplier(linear.num_train_steps,
                                              linear.num_warmup_steps,
                                              linear.last_epoch))
        /\ linear.last_epoch = 0 => FracEq(linear.m, Frac(0, 1))
        /\ linear.last_epoch = linear.num_warmup_steps => FracEq(linear.m, Frac(1, 1))
        /\ linear.last_epoch = linear.num_train_steps => FracEq(linear.m, Frac(0, 1))

C15_Witness ==
    /\ linear.ctor = "ok"
    /\ linear.num_warmup_steps = 2 /\ linear.num_train_steps = 5
    /\ linear.last_epoch = 2
    /\ FracEq(linear.m, Frac(1, 1))

\* C16 as stated: at step index s (last_epoch = s) the rate of every group is
\* start_lr * (end_lr / start_lr) ^ (s / total_steps).
C16_Exponent ==
    expanneal.ctor = "ok" =>
        \A i \in 1..Len(expanneal.lrs) :
            FracEq(expanneal.lrs[i],
                   Pow(expanneal.self.base_lrs[i], expanneal.self.end_lr,
                       Frac(expanneal.self.last_epoch, expanneal.self.iterations)))

\* C16 amended: at step index s the rate of every group is
\* start_lr * (end_lr / start_lr) ^ ((s + 1) / total_steps): it is end_lr at
\* step total_steps - 1, and below the rate before it when end_lr < start_lr.
C16_ExponentNext ==
    expanneal.ctor = "ok" =>
        \A i \in 1..Len(expanneal.lrs) :
            /\ FracEq(expanneal.lrs[i],
                      Pow(expanneal.self.base_lrs[i], expanneal.self.end_lr,
                          Frac(expanneal.self.last_epoch + 1, expanneal.self.iterations)))
            /\ expanneal.self.last_epoch = expanneal.self.iterations - 1 =>
                  FracEq(expanneal.lrs[i], Frac(expanneal.self.end_lr, 1))
            /\ expanneal.self.end_lr < expanneal.self.base_lrs[i] =>
                  FracLess(expanneal.lrs[i], expanneal.prev_lrs[i])

C16_Witness ==
    /\ expanneal.ctor = "ok"
    /\ expanneal.self.iterations = 3
    /\ expanneal.self.last_epoch = 2
    /\ expanneal.self.end_lr = -2
    /\ \A i \in 1..Len(expanneal.lrs) : FracEq(expanneal.lrs[i], Frac(-2, 1))

\* no rate is above its value before the last step call, and a call that did
\* not return True left every group as it was
LrOnlyDown ==
    /\ ret # "True" => param_groups = prev.groups
    /\ \A i \in 1..Len(param_groups) : param_groups[i].lr <= prev.groups[i].lr

\* C21 as stated: with 0 < factor < 1 a step call that does not return True
\* leaves every rate unchanged, and no step call raises a rate.
C21_LrOnlyDown ==
    (Built /\ FactorInRange /\ ret # "none") => LrOnlyDown

\* C21 amended: the same, for the schedulers whose eps is not negative.
C21_LrOnlyDownEps ==
    (Built /\ FactorInRange /\ sched.eps >= 0 /\ ret # "none") => LrOnlyDown

C21_Witness ==
    /\ Built /\ FactorInRange /\ sched.eps >= 0
    /\ ret = "False"
    /\ param_groups = prev.groups
    /\ param_groups[1].lr < InitialGroups[1].lr
    /\ prev.groups[2].lr < sched.min_lrs[2]

\* C22: in every state of a scheduler, and for every primary metric, a step
\* call with the auxiliary metric 0 has the result and leaves the scheduler
\* and the rates as the call without an auxiliary metric does.
C22_ZeroIsAbsent ==
    Built =>
        \A m \in Metrics :
            LET zero == step(sched, param_groups, m, Num(0))
                absent == step(sched, param_groups, m, None)
            IN /\ zero.ret = absent.ret
               /\ zero.self = absent.self
               /\ zero.groups = absent.groups

\* a call with auxiliary metric 0 on a tie with a numeric best_aux, which left
\* the state a call without auxiliary metric leaves
C22_Witness ==
    /\ Built /\ Returned
    /\ args.aux = Num(0)
    /\ args.metric.v = prev.self.best
    /\ IsNum(prev.self.best_aux) /\ prev.self.best_aux.v > 0
    /\ sched = step(prev.self, prev.groups, args.metric, None).self
    /\ sched.num_bad_epochs = prev.self.num_bad_epochs + 1

\* C23: with base patience >= 0 and cooldown >= 0, a step call that returns
\* True is at least cooldown + base_patience + 1 step calls after the previous
\* one that returned True, whatever the metrics.
C23_Spacing ==
    (Built /\ CountsInRange /\ ret = "True" /\ prev.since >= 0) =>
        prev.since + 1 >= sched.cooldown + sched.default_patience + 1

C23_Witness ==
    /\ Built /\ CountsInRange /\ ret = "True"
    /\ sched.cooldown = 2
    /\ prev.since = sched.cooldown + sched.default_patience

\* C24: a step call that raises because its primary or its auxiliary metric is
\* not a number leaves epoch, best, best_aux, bad_epoch_count,
\* cooldown_remaining, effective_patience and every rate as they were before
\* the call.  (Stated for the schedulers whose factor, patience and cooldown
\* are within their ranges.)
C24_Atomic ==
    (/\ Built /\ FactorInRange /\ CountsInRange
     /\ ret \in {"ValueError", "TypeError"}
     /\ args.metric.t = "str" \/ args.aux.t = "str") =>
        /\ sched.last_epoch = prev.self.last_epoch
        /\ sched.best = prev.self.best
        /\ sched.best_aux = prev.self.best_aux
        /\ sched.num_bad_epochs = prev.self.num_bad_epochs
        /\ sched.cooldown_counter = prev.self.cooldown_counter
        /\ sched.effective_patience = prev.self.effective_patience
        /\ param_groups = prev.groups

FracLeq(a, b) == ~FracLess(b, a)

\* C25: for all non-negative total_steps, warmup_steps and steps s the
\* multiplier is within 0..1, does not fall from one step to the next below
\* warmup_steps and does not rise from one step to the next from warmup_steps on.
C25_MultiplierBounds ==
    linear.ctor = "ok" =>
        /\ FracLeq(Frac(0, 1), linear.m)
        /\ FracLeq(linear.m, Frac(1, 1))
        /\ (linear.last_epoch >= 1 /\ linear.last_epoch < linear.num_warmup_steps) =>
              FracLeq(linear.prev_m, linear.m)
        /\ linear.last_epoch - 1 >= linear.num_warmup_steps =>
              FracLeq(linear.m, linear.prev_m)

C25_Witness ==
    /\ linear.ctor = "ok"
    /\ linear.num_warmup_steps = 3 /\ linear.num_train_steps = 2
    /\ linear.last_epoch = 4
    /\ FracEq(linear.m, Frac(0, 1))

====
